---- MODULE Spec2Model ----
(***************************************************************************)
(* createAgentChat (src/unnamed/part_000, lines 26-413): the chat engine   *)
(* that multiplexes streamed exchanges over one shared connection and      *)
(* reconciles the local message list.                                      *)
(*                                                                         *)
(* One state of the model is the state of one createAgentChat instance     *)
(* between two turns of the event loop: the store and the signals, the     *)
(* set localRequestIds, the map remoteStreams, the onMessage listeners     *)
(* attached to the connection, and, for every sendMessage call, the        *)
(* position of the call, the ReadableStream controller of its aiFetch and  *)
(* the two locals of its stream loop.                                      *)
(*                                                                         *)
(* aiFetch takes init.signal; its abort listener (lines 183-195) is the    *)
(* cancel() of an exchange.  sendMessage itself passes no signal, and a    *)
(* call without a signal behaves as a call whose signal is never aborted,  *)
(* so the model gives every aiFetch a signal and lets Abort fire or not.   *)
(*                                                                         *)
(* Scheduling: a message event of the connection is a task; the promise    *)
(* reactions of the stream loop are microtasks and have all run before the *)
(* next task starts.  Calls made by the caller (sendMessage, abort,        *)
(* clearHistory, setMessages) may come at any point.                       *)
(***************************************************************************)
EXTENDS Integers, Sequences, FiniteSets, TLC

\* ---------------------------------------------------------------- bounds
\* inputs of one behaviour: calls made by the caller and inbound frames
MaxInputs == 4

\* ---------------------------------------------------------------- inputs
\* nanoid(8) of aiFetch: the token of the e-th call is modelled as e.
Exchanges == 1..MaxInputs
\* an identifier issued by another client of the same agent
RemoteIds == {MaxInputs + 1}
AllIds == Exchanges \cup RemoteIds

\* nanoid() of sendMessage: the user message of the e-th call
UserId(e) == "u" \o ToString(e)
AssistantIds == {"a1", "a2"}
Frags == {"a", "b"}

Msg(id, role, parts) == [id |-> id, role |-> role, parts |-> parts]

\* chat-messages snapshots, history responses and setMessages arguments:
\* lists that are unique by id
Snapshots ==
  { <<>>,
    << Msg("h1", "user", <<"q">>), Msg("a1", "assistant", <<"s">>) >> }

\* The body of a chat-response frame.  json says whether JSON.parse accepts
\* it; for a body that is not JSON, raw is its text.
JsonBody(type, messageId, delta) ==
  [json |-> TRUE, raw |-> "{..}", type |-> type, messageId |-> messageId, delta |-> delta]
RawBody(raw) ==
  [json |-> FALSE, raw |-> raw, type |-> "", messageId |-> "", delta |-> ""]
Bodies ==
  {JsonBody("start", m, "") : m \in AssistantIds}
    \cup {JsonBody("text-delta", "", d) : d \in Frags}
    \cup {JsonBody("finish", "", ""), RawBody("{not json"), RawBody("")}
\* the body of a frame flagged as error is the error message
ErrorBodies == {RawBody("boom")}

\* event.data of an inbound message event.  valid says whether JSON.parse
\* accepts it.
Frame(valid, type, id, body, done, err, msgs) ==
  [valid |-> valid, type |-> type, id |-> id, body |-> body, done |-> done,
   error |-> err, messages |-> msgs]
ResponseFrame(id, body, done, err) ==
  Frame(TRUE, "chat-response", id, body, done, err, <<>>)
ResponseFramesOf(id) ==
  {ResponseFrame(id, b, d, FALSE) : b \in Bodies, d \in BOOLEAN}
    \cup {ResponseFrame(id, b, TRUE, TRUE) : b \in ErrorBodies}
ResponseFrames == UNION {ResponseFramesOf(id) : id \in AllIds}
MalformedFrame == Frame(FALSE, "", 0, RawBody("{not json"), FALSE, FALSE, <<>>)
ClearFrame == Frame(TRUE, "chat-clear", 0, RawBody(""), FALSE, FALSE, <<>>)
MessagesFrames ==
  {Frame(TRUE, "chat-messages", 0, RawBody(""), FALSE, FALSE, s) : s \in Snapshots}
OtherFrame == Frame(TRUE, "mcp-servers", 0, RawBody(""), FALSE, FALSE, <<>>)
Frames ==
  ResponseFrames \cup MessagesFrames \cup {MalformedFrame, ClearFrame, OtherFrame}

\* ---------------------------------------------------------------- state
VARIABLES
  messages,            \* the store of line 31
  status,              \* signal of line 32
  error,               \* signal of line 35: <<>> (undefined) or <<message>>
  localRequestIds,     \* line 37
  remoteStreams,       \* line 39: id -> <<>> (absent) or <<entry>>
  listeners,           \* calls whose onMessage is attached to the connection
  pc,                  \* position of each sendMessage call
  controller,          \* the ReadableStream controller of each aiFetch
  assistantMessageId,  \* local of the stream loop, "" is undefined
  textContent,         \* local of the stream loop
  signal,              \* init.signal of each aiFetch: none (no call yet), armed, aborted
  sent,                \* how many frames of each type and id agent.send was given
  lastSent,            \* the last frame given to agent.send
  historyPending,      \* the fetch of fetchHistory has not resolved
  ninputs,             \* calls and inbound frames so far
  observed,            \* history: the stream events processed per exchange id
  startedBy,           \* history: the exchange ids whose start events named a message id
  lastFrame,           \* history: the last inbound frame delivered
  script,              \* the frames the far end answers the first request with
  sse,                 \* one run of parseSSEStream on a byte stream
  paths                \* one event sequence applied by the stream loop and by handleServerMessage

vars ==
  << messages, status, error, localRequestIds, remoteStreams, listeners, pc,
     controller, assistantMessageId, textContent, signal, sent, lastSent,
     historyPending, ninputs, observed, startedBy, lastFrame, script, sse,
     paths >>

\* threw: a listener ended with an uncaught exception on that frame
Delivered(kind, threw) == [kind |-> kind, threw |-> threw]

\* ------------------------------------------------- ReadableStream controller
OpenController == [queue |-> <<>>, closeRequested |-> FALSE, storedError |-> <<>>]

\* the stream is in state "readable": neither errored nor closed
IsReadable(c) ==
  c.storedError = <<>> /\ ~(c.closeRequested /\ c.queue = <<>>)

\* enqueue() and close() throw a TypeError unless this holds
CanCloseOrEnqueue(c) == IsReadable(c) /\ ~c.closeRequested

\* a close that does nothing
CloseNever(c) == c

\* controller.close(), both call sites inside try {} catch {}
Close(c) ==
  IF CanCloseOrEnqueue(c) THEN [c EXCEPT !.closeRequested = TRUE] ELSE c

\* controller.error(new Error(body)): does nothing unless readable; drops
\* the chunks still queued
ErrorStream(c, body) ==
  IF IsReadable(c) THEN [c EXCEPT !.queue = <<>>, !.storedError = <<body>>] ELSE c

Enqueue(c, chunk) == [c EXCEPT !.queue = Append(c.queue, chunk)]

\* new TextEncoder().encode(`data: ${data.body}\n\n`), line 213: one complete
\* line and an empty one
SSEChunk(body) == [prefix |-> "data: ", payload |-> body, terminator |-> "\n\n"]

\* data.body?.trim() of line 211, jsonStr.trim() of line 290
NonBlank(body) == body.json \/ body.raw # ""

\* parseSSEStream, lines 271-303, on one chunk read while the buffer is
\* empty: the events it yields
parseSSEStream(chunk) ==
  IF chunk.prefix = "data: " /\ NonBlank(chunk.payload) /\ chunk.payload.json
  THEN <<chunk.payload>>
  ELSE <<>>

\* ------------------------------------------------- reconciliation helpers
\* prev.findIndex((m) => m.id === id), 0 when there is none
FindIndex(msgs, id) ==
  IF \E i \in 1..Len(msgs) : msgs[i].id = id
  THEN CHOOSE i \in 1..Len(msgs) :
         msgs[i].id = id /\ \A j \in 1..(i - 1) : msgs[j].id # id
  ELSE 0

\* the updater that adds the message it does not find
UpdateTextOrAppend(msgs, id, text) ==
  LET idx == FindIndex(msgs, id)
  IN IF idx > 0
     THEN [msgs EXCEPT ![idx].parts = <<text>>]
     ELSE Append(msgs, Msg(id, "assistant", <<text>>))

\* the updater with the index of the last message in place of the index
\* found
UpdateTextLast(msgs, id, text) ==
  IF FindIndex(msgs, id) > 0
  THEN [msgs EXCEPT ![Len(msgs)].parts = <<text>>]
  ELSE msgs

\* the updater of lines 88-99 and 351-362
UpdateText(msgs, id, text) ==
  LET idx == FindIndex(msgs, id)
  IN IF idx > 0 THEN [msgs EXCEPT ![idx].parts = <<text>>] ELSE msgs

\* a reconcile that keeps what the store held
reconcileMerge(prev, next) == prev \o next

\* setMessagesStore(reconcile(next, { key: "id" })), lines 54, 59, 132,
\* 375, 389: the store holds the messages of next, in the order of next
reconcile(prev, next) == next

\* the assistant message a start event appends (lines 76-81, 341-346)
AppendAssistant(msgs, id) == Append(msgs, Msg(id, "assistant", <<>>))

IsStart(chunk) == chunk.type = "start" /\ chunk.messageId # ""
IsDelta(chunk) == chunk.type = "text-delta" /\ chunk.delta # ""

\* ------------------------------------------------- history of the events
\* For an exchange whose events so far are a start event followed by start
\* events of the same message id and text-delta events only (plain): the
\* message id (target) and the fragments of the deltas, concatenated in
\* arrival order (text).  Any other exchange is recorded as NotPlain.
NoEvents == [plain |-> TRUE, target |-> "", text |-> ""]
NotPlain == [plain |-> FALSE, target |-> "", text |-> ""]

Observe(o, chunk) ==
  IF ~o.plain
  THEN o
  ELSE IF IsStart(chunk)
  THEN IF o.target \in {"", chunk.messageId}
       THEN [o EXCEPT !.target = chunk.messageId]
       ELSE NotPlain
  ELSE IF IsDelta(chunk)
  THEN IF o.target = "" THEN NotPlain ELSE [o EXCEPT !.text = @ \o chunk.delta]
  ELSE NotPlain

\* the list was cleared or replaced: the exchanges that had begun are no
\* longer sequences of start and text-delta events on one list
Interrupted(obs) ==
  [id \in DOMAIN obs |-> IF obs[id] = NoEvents THEN obs[id] ELSE NotPlain]

\* ------------------------------------------------- handleServerMessage
\* the check of line 64 never taken
IsLocallyOwnedNever(id) == FALSE

\* line 64
IsLocallyOwned(id) == id \in localRequestIds

Unchanged ==
  [messages |-> messages, remoteStreams |-> remoteStreams, observed |-> observed,
   startedBy |-> startedBy]

Log(id, chunk) == [observed EXCEPT ![id] = Observe(@, chunk)]

LogStart(id, chunk) ==
  IF IsStart(chunk)
  THEN [startedBy EXCEPT ![chunk.messageId] = @ \cup {id}]
  ELSE startedBy

\* lines 68-106: a chat-response frame handled as a remote stream
RemoteChunk(id, body, done) ==
  IF ~body.json
  THEN Unchanged
  ELSE IF IsStart(body)
  THEN [messages |-> AppendAssistant(messages, body.messageId),
        remoteStreams |->
          [remoteStreams EXCEPT
             ![id] = <<[messageId |-> body.messageId, textContent |-> ""]>>],
        observed |-> Log(id, body),
        startedBy |-> LogStart(id, body)]
  ELSE IF IsDelta(body)
  THEN IF remoteStreams[id] # <<>>
       THEN LET stream == remoteStreams[id][1]
                text == stream.textContent \o body.delta
            IN [messages |-> UpdateText(messages, stream.messageId, text),
                remoteStreams |->
                  [remoteStreams EXCEPT ![id] = <<[stream EXCEPT !.textContent = text]>>],
                observed |-> Log(id, body),
                startedBy |-> startedBy]
       ELSE [Unchanged EXCEPT !.observed = Log(id, body)]
  ELSE IF body.type = "finish" \/ done
  THEN [Unchanged EXCEPT
          !.remoteStreams = [remoteStreams EXCEPT ![id] = <<>>],
          !.observed = Log(id, body)]
  ELSE [Unchanged EXCEPT !.observed = Log(id, body)]

\* lines 44-109
handleServerMessage(f) ==
  IF ~f.valid
  THEN Unchanged
  ELSE IF f.type = "chat-clear"
  THEN [Unchanged EXCEPT !.messages = reconcile(messages, <<>>), !.observed = Interrupted(observed)]
  ELSE IF f.type = "chat-messages"
  THEN [Unchanged EXCEPT !.messages = reconcile(messages, f.messages), !.observed = Interrupted(observed)]
  ELSE IF f.type = "chat-response"
  THEN IF IsLocallyOwned(f.id) THEN Unchanged ELSE RemoteChunk(f.id, f.body, f.done)
  ELSE Unchanged

\* ------------------------------------------------- aiFetch: onMessage
Outcome(c, release, threw) == [controller |-> c, release |-> release, threw |-> threw]

\* the comparison of line 205 dropped
AddressedAny(e, f) == TRUE

\* line 205
Addressed(e, f) == f.id = e

\* the listener with a catch block (lines 200-202) that fails the stream
onMessageFailing(e, f) ==
  LET c == controller[e]
  IN IF ~f.valid
     THEN Outcome(ErrorStream(c, f.body), TRUE, FALSE)
     ELSE IF f.type # "chat-response" \/ ~Addressed(e, f)
     THEN Outcome(c, FALSE, FALSE)
     ELSE IF f.error
     THEN Outcome(ErrorStream(c, f.body), TRUE, FALSE)
     ELSE IF NonBlank(f.body) /\ ~CanCloseOrEnqueue(c)
     THEN Outcome(c, FALSE, TRUE)
     ELSE LET c1 == IF NonBlank(f.body) THEN Enqueue(c, SSEChunk(f.body)) ELSE c
          IN IF f.done THEN Outcome(Close(c1), TRUE, FALSE) ELSE Outcome(c1, FALSE, FALSE)

\* lines 197-226, the listener of exchange e
onMessage(e, f) ==
  LET c == controller[e]
  IN IF ~f.valid \/ f.type # "chat-response" \/ ~Addressed(e, f)
     THEN Outcome(c, FALSE, FALSE)
     ELSE IF f.error
     THEN Outcome(ErrorStream(c, f.body), TRUE, FALSE)
     ELSE IF NonBlank(f.body) /\ ~CanCloseOrEnqueue(c)
     THEN Outcome(c, FALSE, TRUE)
     ELSE LET c1 == IF NonBlank(f.body) THEN Enqueue(c, SSEChunk(f.body)) ELSE c
          IN IF f.done THEN Outcome(Close(c1), TRUE, FALSE) ELSE Outcome(c1, FALSE, FALSE)

\* ------------------------------------------------- agent.send
Out(type, id, msgs) == [type |-> type, id |-> id, messages |-> msgs]

OutKeys ==
  ({"chat-request", "chat-request-cancel"} \X Exchanges)
    \cup ({"chat-clear", "chat-messages"} \X {0})

\* agent.send(JSON.stringify(frame))
Send(frame) ==
  /\ sent' = [sent EXCEPT ![<<frame.type, frame.id>>] = @ + 1]
  /\ lastSent' = frame

\* ------------------------------------------------- initial state
\* no stream is being parsed
NoStream ==
  [input |-> <<>>, pos |-> 0, buffer |-> <<>>, events |-> <<>>, done |-> TRUE, split |-> FALSE]

\* the stream loop before its first event: the list and the locals of
\* lines 335-336
LocalPath(list) == [messages |-> list, assistantMessageId |-> "", textContent |-> ""]

\* handleServerMessage before the first frame of a remote exchange: the
\* list and the entry of remoteStreams, <<>> when there is none
RemotePath(list) == [messages |-> list, stream |-> <<>>]

\* no event sequence is being compared
NoPaths == [local |-> LocalPath(<<>>), remote |-> RemotePath(<<>>), n |-> 0]

InitChat ==
  /\ messages = <<>>
  /\ status = "ready"
  /\ error = <<>>
  /\ localRequestIds = {}
  /\ remoteStreams = [id \in AllIds |-> <<>>]
  /\ listeners = {}
  /\ pc = [e \in Exchanges |-> "idle"]
  /\ controller = [e \in Exchanges |-> OpenController]
  /\ assistantMessageId = [e \in Exchanges |-> ""]
  /\ textContent = [e \in Exchanges |-> ""]
  /\ signal = [e \in Exchanges |-> "none"]
  /\ sent = [k \in OutKeys |-> 0]
  /\ lastSent = Out("", 0, <<>>)
  /\ historyPending = TRUE
  /\ ninputs = 0
  /\ observed = [id \in AllIds |-> NoEvents]
  /\ startedBy = [m \in AssistantIds |-> {}]
  /\ lastFrame = Delivered("none", FALSE)

Init ==
  /\ InitChat
  /\ script = <<>>
  /\ sse = NoStream
  /\ paths = NoPaths

\* ------------------------------------------------- sendMessage and aiFetch
\* the registration of line 181 left out
RegisterNever(e) == localRequestIds

\* localRequestIds.add(id), line 181
Register(e) == localRequestIds \cup {e}

\* sendMessage without the setError(undefined) of line 318
SendMessageKeepError(e) ==
  /\ ninputs < MaxInputs
  /\ ninputs' = ninputs + 1
  /\ pc[e] = "idle"
  /\ \A d \in 1..(e - 1) : pc[d] # "idle"
  /\ LET userMessage == Msg(UserId(e), "user", <<"hi">>)
         existingMessages == messages
     IN /\ messages' = Append(messages, userMessage)
        /\ Send(Out("chat-request", e, Append(existingMessages, userMessage)))
  /\ status' = "streaming"
  /\ error' = error
  /\ localRequestIds' = Register(e)
  /\ listeners' = listeners \cup {e}
  /\ controller' = [controller EXCEPT ![e] = OpenController]
  /\ signal' = [signal EXCEPT ![e] = "armed"]
  /\ pc' = [pc EXCEPT ![e] = "streaming"]
  /\ UNCHANGED << remoteStreams, assistantMessageId, textContent, historyPending,
                  observed, startedBy, lastFrame >>
  /\ UNCHANGED << script, sse, paths >>

\* lines 305-333 with the body of aiFetch (lines 157-269), up to the first
\* await of the stream loop
SendMessage(e) ==
  /\ ninputs < MaxInputs
  /\ ninputs' = ninputs + 1
  /\ pc[e] = "idle"
  /\ \A d \in 1..(e - 1) : pc[d] # "idle"
  /\ LET userMessage == Msg(UserId(e), "user", <<"hi">>)
         existingMessages == messages
     IN /\ messages' = Append(messages, userMessage)
        /\ Send(Out("chat-request", e, Append(existingMessages, userMessage)))
  /\ status' = "streaming"
  /\ error' = <<>>
  /\ localRequestIds' = Register(e)
  /\ listeners' = listeners \cup {e}
  /\ controller' = [controller EXCEPT ![e] = OpenController]
  /\ signal' = [signal EXCEPT ![e] = "armed"]
  /\ pc' = [pc EXCEPT ![e] = "streaming"]
  /\ UNCHANGED << remoteStreams, assistantMessageId, textContent, historyPending,
                  observed, startedBy, lastFrame >>
  /\ UNCHANGED << script, sse, paths >>

\* lines 183-195: the abort listener of init.signal; an AbortSignal fires
\* its abort event once
Abort(e) ==
  /\ ninputs < MaxInputs
  /\ ninputs' = ninputs + 1
  /\ signal[e] = "armed"
  /\ Send(Out("chat-request-cancel", e, <<>>))
  /\ controller' = [controller EXCEPT ![e] = Close(@)]
  /\ localRequestIds' = localRequestIds \ {e}
  /\ signal' = [signal EXCEPT ![e] = "aborted"]
  /\ UNCHANGED << messages, status, error, remoteStreams, listeners, pc,
                  assistantMessageId, textContent, historyPending, observed, startedBy, lastFrame >>
  /\ UNCHANGED << script, sse, paths >>

\* abort() on a signal that is aborted already: no event is fired
AbortAgain(e) ==
  /\ signal[e] = "aborted"
  /\ UNCHANGED vars

\* ------------------------------------------------- an inbound frame
FrameKind(f) ==
  IF ~f.valid THEN "malformed"
  ELSE IF f.type # "chat-response" THEN f.type
  ELSE IF f.error THEN "error"
  ELSE IF f.done THEN "done"
  ELSE "chunk"

\* The far end answers the requests it was sent: a frame carries the
\* identifier of a call only once that call was issued.
Sendable(f) ==
  (f.valid /\ f.type = "chat-response" /\ f.id \in Exchanges) => pc[f.id] # "idle"

\* no stream loop has a read that can complete: the microtask queue is empty
Quiescent ==
  \A e \in Exchanges :
    pc[e] = "streaming" =>
      /\ controller[e].storedError = <<>>
      /\ controller[e].queue = <<>>
      /\ ~controller[e].closeRequested

\* dispatch of one message event: handleServerMessage (attached at line 146,
\* before any aiFetch) runs first, then every attached onMessage
Deliver(f) ==
  /\ Quiescent
  /\ Sendable(f)
  /\ ninputs' = ninputs + 1
  /\ LET h == handleServerMessage(f)
     IN /\ messages' = h.messages
        /\ remoteStreams' = h.remoteStreams
        /\ observed' = h.observed
        /\ startedBy' = h.startedBy
  /\ controller' =
       [e \in Exchanges |->
          IF e \in listeners THEN onMessage(e, f).controller ELSE controller[e]]
  /\ localRequestIds' =
       localRequestIds \ {e \in listeners : onMessage(e, f).release}
  /\ lastFrame' = Delivered(FrameKind(f), \E e \in listeners : onMessage(e, f).threw)
  /\ UNCHANGED << status, error, listeners, pc, assistantMessageId, textContent,
                  signal, sent, lastSent, historyPending >>
  /\ UNCHANGED << script, sse, paths >>

\* a frame arrives, within the bound on the inputs
Receive(f) ==
  /\ ninputs < MaxInputs
  /\ Deliver(f)

\* ------------------------------------------------- the stream loop
\* lines 338-365, one iteration: reader.read() returns a chunk
ConsumeChunk(e) ==
  /\ pc[e] = "streaming"
  /\ controller[e].storedError = <<>>
  /\ controller[e].queue # <<>>
  /\ controller' = [controller EXCEPT ![e].queue = Tail(@)]
  /\ LET yielded == parseSSEStream(Head(controller[e].queue))
     IN IF yielded = <<>>
        THEN UNCHANGED << messages, assistantMessageId, textContent, observed, startedBy >>
        ELSE LET chunk == yielded[1]
             IN /\ observed' = Log(e, chunk)
                /\ startedBy' = LogStart(e, chunk)
                /\ IF IsStart(chunk)
                   THEN /\ assistantMessageId' =
                             [assistantMessageId EXCEPT ![e] = chunk.messageId]
                        /\ messages' = AppendAssistant(messages, chunk.messageId)
                        /\ UNCHANGED textContent
                   ELSE IF IsDelta(chunk)
                   THEN /\ textContent' = [textContent EXCEPT ![e] = @ \o chunk.delta]
                        /\ messages' =
                             IF assistantMessageId[e] # ""
                             THEN UpdateText(messages, assistantMessageId[e], textContent'[e])
                             ELSE messages
                        /\ UNCHANGED assistantMessageId
                   ELSE UNCHANGED << messages, assistantMessageId, textContent >>
  /\ UNCHANGED << status, error, localRequestIds, remoteStreams, listeners, pc,
                  signal, sent, lastSent, historyPending, ninputs, lastFrame >>
  /\ UNCHANGED << script, sse, paths >>

\* the stream is closed and drained: flush() of line 262 removes the
\* listener, the loop ends, line 367
ConsumeEnd(e) ==
  /\ pc[e] = "streaming"
  /\ controller[e].storedError = <<>>
  /\ controller[e].closeRequested
  /\ controller[e].queue = <<>>
  /\ listeners' = listeners \ {e}
  /\ status' = "ready"
  /\ pc' = [pc EXCEPT ![e] = "ready"]
  /\ UNCHANGED << messages, error, localRequestIds, remoteStreams, controller,
                  assistantMessageId, textContent, signal, sent, lastSent, historyPending,
                  ninputs, observed, startedBy, lastFrame >>
  /\ UNCHANGED << script, sse, paths >>

\* reader.read() rejects with the stored error: lines 368-371.  Neither
\* flush() nor cancel() of the streams is called.
ConsumeError(e) ==
  /\ pc[e] = "streaming"
  /\ controller[e].storedError # <<>>
  /\ error' = controller[e].storedError
  /\ status' = "error"
  /\ pc' = [pc EXCEPT ![e] = "error"]
  /\ UNCHANGED << messages, localRequestIds, remoteStreams, listeners, controller,
                  assistantMessageId, textContent, signal, sent, lastSent, historyPending,
                  ninputs, observed, startedBy, lastFrame >>
  /\ UNCHANGED << script, sse, paths >>

\* ------------------------------------------------- the other operations
\* lines 374-381
ClearHistory ==
  /\ ninputs < MaxInputs
  /\ ninputs' = ninputs + 1
  /\ messages' = reconcile(messages, <<>>)
  /\ Send(Out("chat-clear", 0, <<>>))
  /\ observed' = Interrupted(observed)
  /\ UNCHANGED << status, error, localRequestIds, remoteStreams, listeners, pc,
                  controller, assistantMessageId, textContent, signal,
                  historyPending, startedBy, lastFrame >>
  /\ UNCHANGED << script, sse, paths >>

\* lines 383-397, called with a list
SetMessages(list) ==
  /\ ninputs < MaxInputs
  /\ ninputs' = ninputs + 1
  /\ messages' = reconcile(messages, list)
  /\ Send(Out("chat-messages", 0, list))
  /\ observed' = Interrupted(observed)
  /\ UNCHANGED << status, error, localRequestIds, remoteStreams, listeners, pc,
                  controller, assistantMessageId, textContent, signal,
                  historyPending, startedBy, lastFrame >>
  /\ UNCHANGED << script, sse, paths >>

\* an updater a caller may pass: drop the last message
DropLast(prev) == IF prev = <<>> THEN prev ELSE SubSeq(prev, 1, Len(prev) - 1)

\* lines 383-397, called with an updater function
SetMessagesFn ==
  /\ ninputs < MaxInputs
  /\ ninputs' = ninputs + 1
  /\ messages' = DropLast(messages)
  /\ Send(Out("chat-messages", 0, <<>>))
  /\ observed' = Interrupted(observed)
  /\ UNCHANGED << status, error, localRequestIds, remoteStreams, listeners, pc,
                  controller, assistantMessageId, textContent, signal,
                  historyPending, startedBy, lastFrame >>
  /\ UNCHANGED << script, sse, paths >>

\* lines 120-141: the history request resolves with an array
HistoryResolve(history) ==
  /\ historyPending
  /\ historyPending' = FALSE
  /\ messages' = reconcile(messages, history)
  /\ observed' = Interrupted(observed)
  /\ UNCHANGED << status, error, localRequestIds, remoteStreams, listeners, pc,
                  controller, assistantMessageId, textContent, signal, sent, lastSent,
                  ninputs, startedBy, lastFrame >>
  /\ UNCHANGED << script, sse, paths >>

\* lines 129-137: the request fails, is not ok, or returns no array
HistoryFail ==
  /\ historyPending
  /\ historyPending' = FALSE
  /\ UNCHANGED << messages, status, error, localRequestIds, remoteStreams,
                  listeners, pc, controller, assistantMessageId, textContent,
                  signal, sent, lastSent, ninputs, observed, startedBy, lastFrame >>
  /\ UNCHANGED << script, sse, paths >>

\* ------------------------------------------------- specifications
Next ==
  \/ \E e \in Exchanges : SendMessage(e)
  \/ \E e \in Exchanges : Abort(e)
  \/ \E e \in Exchanges : AbortAgain(e)
  \/ \E f \in Frames : Receive(f)
  \/ \E e \in Exchanges : ConsumeChunk(e)
  \/ \E e \in Exchanges : ConsumeEnd(e)
  \/ \E e \in Exchanges : ConsumeError(e)
  \/ ClearHistory
  \/ \E list \in Snapshots : SetMessages(list)
  \/ SetMessagesFn
  \/ \E history \in Snapshots : HistoryResolve(history)
  \/ HistoryFail

Spec == Init /\ [][Next]_vars

\* The reads of the stream loop are promise reactions: the event loop runs
\* every one that can run.
Fairness ==
  \A e \in Exchanges :
    /\ WF_vars(ConsumeChunk(e))
    /\ WF_vars(ConsumeEnd(e))
    /\ WF_vars(ConsumeError(e))

FairSpec == Spec /\ Fairness

\* ------------------------------------------------- one answered request
\* The far end answers the first sendMessage with a start event, text-delta
\* events, a finish event and a done frame, and sends nothing else; the
\* history request is settled before the call.
MaxFragments == 2

FragmentSeqs == UNION {[1..n -> Frags] : n \in 1..MaxFragments}

Endings ==
  { << ResponseFrame(1, JsonBody("finish", "", ""), FALSE, FALSE),
       ResponseFrame(1, RawBody(""), TRUE, FALSE) >>,
    << ResponseFrame(1, JsonBody("finish", "", ""), TRUE, FALSE) >> }

ScriptOf(m, ds, ending) ==
  << ResponseFrame(1, JsonBody("start", m, ""), FALSE, FALSE) >>
    \o [i \in 1..Len(ds) |-> ResponseFrame(1, JsonBody("text-delta", "", ds[i]), FALSE, FALSE)]
    \o ending

Scripts ==
  {ScriptOf(m, ds, ending) : m \in AssistantIds, ds \in FragmentSeqs, ending \in Endings}

ScenarioInit ==
  /\ InitChat
  /\ script \in Scripts
  /\ sse = NoStream
  /\ paths = NoPaths

Bootstrap(history) == pc[1] = "idle" /\ HistoryResolve(history)

BootstrapFail == pc[1] = "idle" /\ HistoryFail

Issue == SendMessage(1)

\* the next frame of the answer arrives
Answer ==
  /\ pc[1] # "idle"
  /\ ninputs \in 1..Len(script)
  /\ Deliver(script[ninputs])

ReadChunk == ConsumeChunk(1)

ReadEnd == ConsumeEnd(1)

ScenarioNext ==
  \/ \E history \in Snapshots : Bootstrap(history)
  \/ BootstrapFail
  \/ Issue
  \/ Answer
  \/ ReadChunk
  \/ ReadEnd

ScenarioSpec == ScenarioInit /\ [][ScenarioNext]_vars

\* ------------------------------------------------- parseSSEStream
\* One run of parseSSEStream (lines 271-303) on a body whose text is a
\* sequence of characters, read in chunks of any size.
MaxLines == 2

Newline == "\n"

\* "data: ", line 288
Prefix == << "d", "a", "t", "a", ":", " " >>

Digits == {"1", "2"}

Whitespace == {" ", Newline}

Front(s) == SubSeq(s, 1, Len(s) - 1)

\* s.split("\n")
RECURSIVE Split(_)
Split(s) ==
  IF \A i \in 1..Len(s) : s[i] # Newline
  THEN << s >>
  ELSE LET i == CHOOSE k \in 1..Len(s) :
                  s[k] = Newline /\ \A j \in 1..(k - 1) : s[j] # Newline
       IN << SubSeq(s, 1, i - 1) >> \o Split(SubSeq(s, i + 1, Len(s)))

\* line.startsWith(prefix)
StartsWith(line, prefix) ==
  Len(line) >= Len(prefix) /\ SubSeq(line, 1, Len(prefix)) = prefix

RECURSIVE TrimStart(_)
TrimStart(s) ==
  IF s # <<>> /\ Head(s) \in Whitespace THEN TrimStart(Tail(s)) ELSE s

RECURSIVE TrimEnd(_)
TrimEnd(s) ==
  IF s # <<>> /\ s[Len(s)] \in Whitespace THEN TrimEnd(Front(s)) ELSE s

\* s.trim()
Trim(s) == TrimEnd(TrimStart(s))

\* JSON.parse on the texts of this alphabet: a text parses when it is a
\* number with white space around it, and throws otherwise
JSONparse(str) ==
  LET t == Trim(str)
  IN IF t # <<>> /\ \A i \in 1..Len(t) : t[i] \in Digits
     THEN [ok |-> TRUE, value |-> t]
     ELSE [ok |-> FALSE, value |-> <<>>]

\* the for loop of lines 287-298 on the lines of one read
RECURSIVE Yield(_)
Yield(lines) ==
  IF lines = <<>>
  THEN <<>>
  ELSE LET line == Head(lines)
           jsonStr == SubSeq(line, Len(Prefix) + 1, Len(line))
       IN (IF StartsWith(line, Prefix) /\ Trim(jsonStr) # <<>> /\ JSONparse(jsonStr).ok
           THEN << JSONparse(jsonStr).value >>
           ELSE <<>>)
            \o Yield(Tail(lines))

\* an assembler that keeps nothing between two reads
RemainderNone(lines) == <<>>

\* lines.pop() || "", line 285
Remainder(lines) == lines[Len(lines)]

\* the lines a body is made of
Lines ==
  { Prefix \o << "1" >>,
    Prefix \o << "2" >>,
    Prefix \o << " ", "1", " " >>,
    Prefix \o << "{" >>,
    Prefix \o << " " >>,
    Prefix,
    << "d", "a", "t", "a", ":", "1" >>,
    << " " >> \o Prefix \o << "1" >>,
    << "1" >>,
    <<>> }

RECURSIVE Texts(_)
Texts(n) ==
  IF n = 0
  THEN { <<>> }
  ELSE {line \o << Newline >> \o text : line \in Lines, text \in Texts(n - 1)}

\* up to MaxLines terminated lines, then a remainder without a newline
Inputs ==
  {text \o rest : text \in UNION {Texts(n) : n \in 0..MaxLines}, rest \in Lines}

SSEInit ==
  /\ InitChat
  /\ script = <<>>
  /\ sse \in {[input |-> input, pos |-> 0, buffer |-> <<>>, events |-> <<>>,
               done |-> FALSE, split |-> FALSE] : input \in Inputs}
  /\ paths = NoPaths

\* reader.read() gives the next n characters (lines 280-298)
Read(n) ==
  /\ ~sse.done
  /\ n \in 1..(Len(sse.input) - sse.pos)
  /\ LET value == SubSeq(sse.input, sse.pos + 1, sse.pos + n)
         lines == Split(sse.buffer \o value)
     IN sse' = [sse EXCEPT !.pos = @ + n,
                           !.buffer = Remainder(lines),
                           !.events = @ \o Yield(Front(lines)),
                           !.split = @ \/ (lines[Len(lines)] # <<>>
                                             /\ sse.pos + n < Len(sse.input))]
  /\ UNCHANGED << messages, status, error, localRequestIds, remoteStreams,
                  listeners, pc, controller, assistantMessageId, textContent,
                  signal, sent, lastSent, historyPending, ninputs, observed,
                  startedBy, lastFrame, script, paths >>

\* reader.read() gives done (line 281): the generator returns
ReadDone ==
  /\ ~sse.done
  /\ sse.pos = Len(sse.input)
  /\ sse' = [sse EXCEPT !.done = TRUE]
  /\ UNCHANGED << messages, status, error, localRequestIds, remoteStreams,
                  listeners, pc, controller, assistantMessageId, textContent,
                  signal, sent, lastSent, historyPending, ninputs, observed,
                  startedBy, lastFrame, script, paths >>

SSENext ==
  \/ \E n \in 1..Len(sse.input) : Read(n)
  \/ ReadDone

SSESpec == SSEInit /\ [][SSENext]_vars

\* ------------------------------------------------- the two paths
\* The events of one exchange, applied to the same initial list once by the
\* stream loop of sendMessage and once by handleServerMessage.
MaxEvents == 3

\* the chunks of a response stream: start, text-delta and finish events
StreamEvents == {b \in Bodies : b.json}

\* lines 338-365: one iteration of the stream loop on the chunk yielded
LocalStep(l, chunk) ==
  IF IsStart(chunk)
  THEN [l EXCEPT !.assistantMessageId = chunk.messageId,
                 !.messages = AppendAssistant(@, chunk.messageId)]
  ELSE IF IsDelta(chunk)
  THEN LET text == l.textContent \o chunk.delta
       IN [l EXCEPT !.textContent = text,
                    !.messages = IF l.assistantMessageId # ""
                                 THEN UpdateText(@, l.assistantMessageId, text)
                                 ELSE @]
  ELSE l

\* lines 68-106: one chat-response frame of an exchange that is not
\* locally owned
RemoteStep(r, chunk, done) ==
  IF IsStart(chunk)
  THEN [messages |-> AppendAssistant(r.messages, chunk.messageId),
        stream |-> << [messageId |-> chunk.messageId, textContent |-> ""] >>]
  ELSE IF IsDelta(chunk)
  THEN IF r.stream # <<>>
       THEN LET text == r.stream[1].textContent \o chunk.delta
            IN [messages |-> UpdateText(r.messages, r.stream[1].messageId, text),
                stream |-> << [r.stream[1] EXCEPT !.textContent = text] >>]
       ELSE r
  ELSE IF chunk.type = "finish" \/ done
  THEN [r EXCEPT !.stream = <<>>]
  ELSE r

PathsInit ==
  /\ InitChat
  /\ script = <<>>
  /\ sse = NoStream
  /\ paths \in {[local |-> LocalPath(list), remote |-> RemotePath(list), n |-> 0] :
                  list \in Snapshots}

\* the next event of the exchange reaches both paths
ApplyEvent(chunk) ==
  /\ paths.n < MaxEvents
  /\ paths' = [local |-> LocalStep(paths.local, chunk),
               remote |-> RemoteStep(paths.remote, chunk, FALSE),
               n |-> paths.n + 1]
  /\ UNCHANGED << messages, status, error, localRequestIds, remoteStreams,
                  listeners, pc, controller, assistantMessageId, textContent,
                  signal, sent, lastSent, historyPending, ninputs, observed,
                  startedBy, lastFrame, script, sse >>

PathsNext == \E chunk \in StreamEvents : ApplyEvent(chunk)

PathsSpec == PathsInit /\ [][PathsNext]_vars

\* ------------------------------------------------- claims
\* an identifier this client issued and has released since
Released(id) == id \in Exchanges /\ pc[id] # "idle" /\ id \notin localRequestIds

\* C1: once the identifier of a locally initiated exchange has been
\* released, a chat-response frame that carries it changes neither the
\* message list nor any exchange state, and starts no remote stream.
C1_LateFrameIgnored ==
  [][\A f \in ResponseFrames :
       (Released(f.id) /\ Receive(f)) =>
         /\ messages' = messages
         /\ remoteStreams' = remoteStreams
         /\ controller' = controller]_vars

\* C2: after cancel() of an exchange its consumer is delivered no further
\* chunk, whatever was queued and whatever arrives.
C2_NoDeliveryAfterCancel ==
  [][\A e \in Exchanges : signal[e] = "aborted" => ~ConsumeChunk(e)]_vars

\* the state a caller can observe, and the frames sent to the far end
Observable ==
  << messages, status, error, localRequestIds, remoteStreams, listeners, pc,
     controller, assistantMessageId, textContent, sent, lastSent >>

\* C3: a second cancel(), or a cancel() after the exchange ended with a done
\* frame, sends no frame and changes no state.
C3_CancelIdempotent ==
  [][\A e \in Exchanges :
       /\ AbortAgain(e) => UNCHANGED Observable
       /\ (pc[e] = "ready" /\ signal[e] = "armed" /\ Abort(e)) => UNCHANGED Observable]_vars

\* C4: the listener of an exchange that has terminated is no longer
\* attached, on every exit path, so no more listeners are attached than
\* exchanges are in flight.
C4_ListenerRemoved ==
  /\ \A e \in Exchanges : pc[e] \in {"ready", "error"} => e \notin listeners
  /\ Cardinality(listeners) <= Cardinality({e \in Exchanges : pc[e] = "streaming"})

\* C5: an error frame for an exchange in flight errors the stream of that
\* exchange with the frame's body and releases its identifier, and touches
\* no other exchange; the sendMessage of an errored stream ends with status
\* "error" and that error, never with "ready".
C5_ErrorConfined ==
  [][/\ \A f \in ResponseFrames :
          (f.error /\ f.id \in localRequestIds /\ Receive(f)) =>
            /\ controller'[f.id].storedError = <<f.body>>
            /\ localRequestIds' = localRequestIds \ {f.id}
            /\ \A d \in Exchanges \ {f.id} : controller'[d] = controller[d]
            /\ UNCHANGED << messages, remoteStreams, listeners, pc,
                            assistantMessageId, textContent, status, error >>
     /\ \A e \in Exchanges :
          (pc[e] = "streaming" /\ controller[e].storedError # <<>> /\ pc'[e] # pc[e]) =>
            /\ pc'[e] = "error"
            /\ status' = "error"
            /\ error' = controller[e].storedError
            /\ \A d \in Exchanges \ {e} : pc'[d] = pc[d] /\ controller'[d] = controller[d]
            /\ UNCHANGED << messages, localRequestIds, listeners >>]_vars

C5_Witness ==
  \E e, d \in Exchanges :
    /\ e # d
    /\ pc[e] = "error"
    /\ status = "error"
    /\ error = <<RawBody("boom")>>
    /\ pc[d] = "streaming"
    /\ d \in localRequestIds
    /\ d \in listeners
    /\ assistantMessageId[d] # ""
    /\ lastFrame.kind = "chunk"

\* C6: an inbound frame that is not JSON changes nothing: not the message
\* list, the status, the error, the live identifiers or any stream.
C6_MalformedDropped ==
  [][Receive(MalformedFrame) =>
       UNCHANGED << Observable, signal, historyPending, observed, startedBy >>]_vars

C6_Witness ==
  /\ lastFrame.kind = "malformed"
  /\ \E e \in Exchanges :
       /\ pc[e] = "streaming"
       /\ e \in localRequestIds
       /\ assistantMessageId[e] # ""

\* C7: for an exchange whose events so far are start events of one message
\* id and text-delta events, the text part of that message is the
\* concatenation of the fragments, in arrival order.
C7_TextIsConcatenation ==
  \A id \in AllIds :
    LET o == observed[id]
    IN (o.plain /\ o.target # "" /\ o.text # "" /\ startedBy[o.target] = {id}) =>
         /\ FindIndex(messages, o.target) > 0
         /\ messages[FindIndex(messages, o.target)].parts = <<o.text>>

\* the chat-response frames by identifier and by kind
FrameKinds ==
  {"none", "malformed", "chat-clear", "chat-messages", "mcp-servers", "error", "done", "chunk"}
ResponseFramesBy ==
  [id \in AllIds |->
     [k \in FrameKinds |-> {f \in ResponseFramesOf(id) : FrameKind(f) = k}]]

\* the step is the delivery of a chat-response frame that carries id
ReceivedOf(id) ==
  /\ ninputs' # ninputs
  /\ sent' = sent
  /\ id \in Exchanges => pc[id] # "idle"
  /\ \E f \in ResponseFramesBy[id][lastFrame'.kind] : Receive(f)

\* the messages of the list that a step leaves as they are
Untouched(i) == i <= Len(messages') /\ messages'[i] = messages[i]

\* C8: a frame reaches the stream of no exchange but its own; an event of
\* one exchange changes no message but the one that exchange streams into,
\* sets it to that exchange's own accumulated text, and changes the
\* accumulated text of no other exchange.
C8_NoCrossContamination ==
  [][/\ \A e \in Exchanges :
          ConsumeChunk(e) =>
            /\ \A i \in 1..Len(messages) :
                 \/ Untouched(i)
                 \/ /\ messages[i].id = assistantMessageId[e]
                    /\ i <= Len(messages')
                    /\ messages'[i] = [messages[i] EXCEPT !.parts = <<textContent'[e]>>]
            /\ \A d \in Exchanges \ {e} :
                 textContent'[d] = textContent[d]
                   /\ assistantMessageId'[d] = assistantMessageId[d]
            /\ remoteStreams' = remoteStreams
     /\ \/ textContent' = textContent /\ assistantMessageId' = assistantMessageId
        \/ \A id \in AllIds : ~ReceivedOf(id)
     \* streams, controllers: the exchanges whose state the step changes
     /\ LET streams == {d \in AllIds : remoteStreams'[d] # remoteStreams[d]}
            controllers == {d \in Exchanges : controller'[d] # controller[d]}
        IN \/ remoteStreams' = remoteStreams /\ controller' = controller /\ messages' = messages
           \/ \A id \in AllIds :
             \/ /\ streams \subseteq {id}
                /\ controllers \subseteq {id}
                /\ \/ messages' = messages
                   \/ \A i \in 1..Len(messages) :
                        \/ Untouched(i)
                        \/ /\ remoteStreams'[id] # <<>>
                           /\ messages[i].id = remoteStreams'[id][1].messageId
                           /\ i <= Len(messages')
                           /\ messages'[i] =
                                [messages[i] EXCEPT !.parts = <<remoteStreams'[id][1].textContent>>]
             \/ ~ReceivedOf(id)]_vars

C8_Witness ==
  \E e \in Exchanges, r \in RemoteIds :
    /\ remoteStreams[r] # <<>>
    /\ assistantMessageId[e] # ""
    /\ assistantMessageId[e] # remoteStreams[r][1].messageId
    /\ textContent[e] # ""
    /\ FindIndex(messages, assistantMessageId[e]) > 0
    /\ messages[FindIndex(messages, assistantMessageId[e])].parts = <<textContent[e]>>
    /\ FindIndex(messages, remoteStreams[r][1].messageId) > 0
    /\ messages[FindIndex(messages, remoteStreams[r][1].messageId)].parts = <<>>

\* C9: no two messages of the list have the same id.
C9_UniqueById ==
  \A i, j \in 1..Len(messages) : i # j => messages[i].id # messages[j].id

\* C10: a chat-response frame of an exchange in flight is not applied by
\* handleServerMessage: delivering it changes neither the message list nor
\* remoteStreams, and records no event; the frame reaches the list through
\* the stream loop of its exchange alone.
C10_LocalNotBroadcast ==
  [][\/ /\ messages' = messages
        /\ remoteStreams' = remoteStreams
        /\ observed' = observed
        /\ startedBy' = startedBy
     \/ \A id \in localRequestIds : ~ReceivedOf(id)]_vars

C10_Witness ==
  \E e \in Exchanges :
    /\ e \in localRequestIds
    /\ assistantMessageId[e] # ""
    /\ textContent[e] # ""
    /\ Cardinality({i \in 1..Len(messages) : messages[i].id = assistantMessageId[e]}) = 1
    /\ messages[FindIndex(messages, assistantMessageId[e])].parts = <<textContent[e]>>

\* C11 as stated: a chat-response frame whose identifier this client never
\* registered leaves the message list unchanged.
C11_UnknownIgnored ==
  [][\A id \in RemoteIds : messages' = messages \/ ~ReceivedOf(id)]_vars

\* C11 as amended: a chat-response frame whose identifier this client never
\* registered reaches no local exchange (no stream, no status, no error, no
\* live identifier changes) and changes the list as a remote stream only: a
\* start event appends one empty assistant message, a text-delta of a stream
\* that has started rewrites the message of that stream with the stream's
\* accumulated text, and any other frame leaves the list unchanged.
C11_UnknownIsRemoteStream ==
  [][\A id \in RemoteIds :
       \/ ninputs' = ninputs
       \/ \A f \in ResponseFramesBy[id][lastFrame'.kind] :
            Receive(f) =>
              /\ UNCHANGED << status, error, localRequestIds, listeners, pc, controller,
                              assistantMessageId, textContent >>
              /\ IF f.body.json /\ IsStart(f.body)
                 THEN messages' = Append(messages, Msg(f.body.messageId, "assistant", <<>>))
                 ELSE /\ Len(messages') = Len(messages)
                      /\ \A i \in 1..Len(messages) :
                           \/ messages'[i] = messages[i]
                           \/ /\ f.body.json /\ IsDelta(f.body)
                              /\ remoteStreams[id] # <<>>
                              /\ messages[i].id = remoteStreams[id][1].messageId
                              /\ messages'[i] =
                                   [messages[i] EXCEPT
                                      !.parts = <<remoteStreams[id][1].textContent \o f.body.delta>>]]_vars

C11_Witness ==
  \E id \in RemoteIds :
    /\ remoteStreams[id] # <<>>
    /\ remoteStreams[id][1].textContent # ""
    /\ FindIndex(messages, remoteStreams[id][1].messageId) > 0
    /\ messages[FindIndex(messages, remoteStreams[id][1].messageId)].parts =
         <<remoteStreams[id][1].textContent>>
    /\ \E e \in Exchanges : pc[e] = "streaming" /\ e \in localRequestIds

\* C12: a call sends exactly one chat-request frame, with an identifier no
\* earlier request carried and with the payload (the list and the user
\* message), and sends nothing else; with the frame sent the identifier is
\* locally owned and the listener of the exchange is attached, and a
\* locally owned identifier always has its listener attached.
C12_IssueSendsOneRequest ==
  [][/\ localRequestIds' \subseteq listeners'
     /\ \A e \in Exchanges :
          SendMessage(e) =>
            /\ e \notin localRequestIds
            /\ sent[<<"chat-request", e>>] = 0
            /\ sent'[<<"chat-request", e>>] = 1
            /\ \A k \in OutKeys \ {<<"chat-request", e>>} : sent'[k] = sent[k]
            /\ lastSent' = Out("chat-request", e, Append(messages, Msg(UserId(e), "user", <<"hi">>)))
            /\ e \in localRequestIds'
            /\ e \in listeners']_vars

C12_Witness ==
  \E e \in Exchanges :
    /\ sent[<<"chat-request", e>>] = 1
    /\ lastSent.type = "chat-request"
    /\ lastSent.id = e
    /\ Len(lastSent.messages) > 1
    /\ e \in localRequestIds
    /\ e \in listeners

\* C13: the first cancel of an exchange in flight sends one
\* chat-request-cancel frame with the identifier of that exchange and no
\* other frame, closes the stream of the exchange and releases its
\* identifier, and changes nothing of any other exchange.
C13_CancelSendsOneFrame ==
  [][\A e \in Exchanges :
       (e \in localRequestIds /\ pc[e] = "streaming" /\ Abort(e)) =>
         /\ sent[<<"chat-request-cancel", e>>] = 0
         /\ sent'[<<"chat-request-cancel", e>>] = 1
         /\ \A k \in OutKeys \ {<<"chat-request-cancel", e>>} : sent'[k] = sent[k]
         /\ lastSent' = Out("chat-request-cancel", e, <<>>)
         /\ controller'[e].closeRequested
         /\ localRequestIds' = localRequestIds \ {e}
         /\ \A d \in Exchanges \ {e} :
              controller'[d] = controller[d] /\ signal'[d] = signal[d]
         /\ UNCHANGED << messages, status, error, remoteStreams, listeners, pc,
                         assistantMessageId, textContent >>]_vars

C13_Witness ==
  \E e, d \in Exchanges :
    /\ e # d
    /\ signal[e] = "aborted"
    /\ sent[<<"chat-request-cancel", e>>] = 1
    /\ controller[e].closeRequested
    /\ e \notin localRequestIds
    /\ d \in localRequestIds
    /\ pc[d] = "streaming"
    /\ ~controller[d].closeRequested
    /\ sent[<<"chat-request-cancel", d>>] = 0

\* C15: clearHistory empties the list at once and sends one chat-clear
\* frame and nothing else; a chat-messages snapshot that arrives after it
\* makes the list the messages of the snapshot, in their order.
C15_ClearThenSnapshot ==
  [][/\ ClearHistory =>
          /\ messages' = <<>>
          /\ sent'[<<"chat-clear", 0>>] = sent[<<"chat-clear", 0>>] + 1
          /\ \A k \in OutKeys \ {<<"chat-clear", 0>>} : sent'[k] = sent[k]
          /\ lastSent' = Out("chat-clear", 0, <<>>)
     /\ \A f \in MessagesFrames :
          (lastSent.type = "chat-clear" /\ Receive(f)) => messages' = f.messages]_vars

C15_Witness ==
  /\ lastSent.type = "chat-clear"
  /\ sent[<<"chat-clear", 0>>] = 1
  /\ lastFrame.kind = "chat-messages"
  /\ Len(messages) = 2
  /\ messages \in Snapshots
  /\ \E e \in Exchanges : pc[e] # "idle"

\* C16: a snapshot, whether received as a chat-messages frame, passed to
\* setMessages or returned by the history request, makes the list exactly
\* the messages of the snapshot in their order, whatever the list held; on a
\* list that is the snapshot already it changes nothing.
C16_ReplaceAll ==
  [][/\ \A f \in MessagesFrames :
          Receive(f) =>
            /\ messages' = f.messages
            /\ messages = f.messages => messages' = messages
     /\ \A list \in Snapshots :
          /\ SetMessages(list) =>
               /\ messages' = list
               /\ messages = list => messages' = messages
          /\ HistoryResolve(list) =>
               /\ messages' = list
               /\ messages = list => messages' = messages]_vars

C16_Witness ==
  /\ lastFrame.kind = "chat-messages"
  /\ lastSent.type = "chat-messages"
  /\ lastSent.messages = messages
  /\ Len(messages) = 2
  /\ \E e \in Exchanges : pc[e] # "idle"

\* the next chunk of the stream of exchange e is a text-delta event and the
\* list holds no message with the message id of the exchange
LocalTargetMissing(e) ==
  /\ pc[e] = "streaming"
  /\ controller[e].queue # <<>>
  /\ LET yielded == parseSSEStream(Head(controller[e].queue))
     IN yielded # <<>> /\ IsDelta(yielded[1])
  /\ FindIndex(messages, assistantMessageId[e]) = 0

\* id is not locally owned and the list holds no message for a text-delta
\* of its remote stream
RemoteTargetMissing(id) ==
  /\ id \notin localRequestIds
  /\ \/ remoteStreams[id] = <<>>
     \/ FindIndex(messages, remoteStreams[id][1].messageId) = 0

\* C17: a text-delta event whose message is not in the list, be it an event
\* of a local exchange or of a remote stream, leaves the list unchanged.
C17_DeltaWithoutTargetDropped ==
  [][\/ messages' = messages
     \/ /\ \A e \in Exchanges : ~(LocalTargetMissing(e) /\ ConsumeChunk(e))
        /\ \A id \in AllIds :
             \/ ~RemoteTargetMissing(id)
             \/ ninputs' = ninputs
             \/ \A f \in ResponseFramesBy[id][lastFrame'.kind] :
                  ~(f.body.json /\ IsDelta(f.body) /\ Receive(f))]_vars

\* no call and no history so far, three frames: a start, a chat-clear or an
\* empty snapshot, and then the text-delta of the stream
C17_Witness ==
  /\ ninputs = 3
  /\ historyPending
  /\ \A k \in OutKeys : sent[k] = 0
  /\ lastFrame.kind = "chunk"
  /\ messages = <<>>
  /\ \E id \in RemoteIds :
       remoteStreams[id] # <<>> /\ remoteStreams[id][1].textContent # ""

\* C18: a sendMessage that starts while the status is "error" sets the
\* status to "streaming" and clears the error, and its exchange, closed by a
\* done frame and read to the end, sets the status to "ready" and leaves the
\* error cleared.
C18_SendAfterError ==
  [][\A e \in Exchanges :
       /\ (status = "error" /\ error # <<>> /\ SendMessage(e)) =>
            /\ status' = "streaming"
            /\ error' = <<>>
            /\ pc'[e] = "streaming"
            /\ controller'[e] = OpenController
       /\ ConsumeEnd(e) =>
            /\ status' = "ready"
            /\ error' = error
            /\ pc'[e] = "ready"]_vars

C18_Witness ==
  \E d, e \in Exchanges :
    /\ d < e
    /\ pc[d] = "error"
    /\ pc[e] = "ready"
    /\ signal[e] = "armed"
    /\ status = "ready"
    /\ error = <<>>

\* C19: an exchange whose identifier was released by a done frame, an error
\* frame or a cancel while its sendMessage is still reading eventually has
\* that sendMessage completed, with status "ready" or "error".
C19_ExchangeTerminates ==
  \A e \in Exchanges :
    (pc[e] = "streaming" /\ Released(e)) ~> (pc[e] \in {"ready", "error"})

C19_Witness ==
  \E d, e \in Exchanges :
    /\ pc[d] = "error"
    /\ status = "error"
    /\ pc[e] = "ready"
    /\ signal[e] = "aborted"
    /\ controller[e].queue = <<>>

\* the fragments of the text-delta frames of an answer, concatenated in
\* the order of the frames
RECURSIVE DeltaText(_)
DeltaText(frames) ==
  IF frames = <<>>
  THEN ""
  ELSE (IF IsDelta(Head(frames).body) THEN Head(frames).body.delta ELSE "")
         \o DeltaText(Tail(frames))

\* C14: when the answer to a sendMessage is a start event with a message id
\* the list does not hold, text-delta events, a finish event and a done
\* frame, the call ends with status "ready" and the list is the list before
\* the call, then the user message, then one assistant message with that id
\* whose text is the concatenation of the fragments.
C14_AnsweredRequest ==
  pc[1] = "ready" =>
    LET m == script[1].body.messageId
        request == lastSent.messages
        before == SubSeq(request, 1, Len(request) - 1)
    IN /\ status = "ready"
       /\ before \in Snapshots
       /\ request = Append(before, Msg(UserId(1), "user", <<"hi">>))
       /\ FindIndex(before, m) = 0 =>
            messages = Append(request, Msg(m, "assistant", <<DeltaText(script)>>))

C14_Witness ==
  /\ pc[1] = "ready"
  /\ status = "ready"
  /\ Len(script) = 5
  /\ Len(messages) = 4
  /\ messages[4].id = script[1].body.messageId
  /\ messages[4].parts = <<DeltaText(script)>>
  /\ DeltaText(script) \notin Frags

\* a line that carries an event: it starts with "data: " and the rest
\* parses as JSON
CarriesEvent(line) ==
  /\ StartsWith(line, Prefix)
  /\ JSONparse(SubSeq(line, Len(Prefix) + 1, Len(line))).ok

\* the events of a text: one for each line ended by a newline that carries
\* an event, in the order of the lines
EventsOf(text) ==
  LET carrying == SelectSeq(Front(Split(text)), CarriesEvent)
  IN [i \in 1..Len(carrying) |->
        JSONparse(SubSeq(carrying[i], Len(Prefix) + 1, Len(carrying[i]))).value]

\* C20: whatever the chunks, the events yielded so far are the events of
\* the complete lines read so far, in line order, a line that does not
\* parse yielding nothing; the characters after the last newline are kept
\* for the next read, and at the end of the data they yield no event.
C20_StreamAssembler ==
  /\ sse.events = EventsOf(SubSeq(sse.input, 1, sse.pos))
  /\ ~sse.done =>
       LET pieces == Split(SubSeq(sse.input, 1, sse.pos))
       IN sse.buffer = pieces[Len(pieces)]
  /\ sse.done => sse.events = EventsOf(sse.input)

C20_Witness ==
  /\ sse.done
  /\ sse.split
  /\ sse.input = Prefix \o << "{", Newline >> \o Prefix \o << "2", Newline >>
                    \o Prefix \o << "1" >>
  /\ sse.events = << << "2" >> >>

\* C21: no inbound frame makes a listener end with an uncaught exception,
\* also not a chat-response frame with a non-empty body for an exchange
\* whose stream is closed or errored while its listener is attached.
C21_NoHandlerThrows == ~lastFrame.threw

\* C22: an identifier is in localRequestIds exactly while its exchange is
\* issued and has had neither a done frame, nor an error frame, nor a
\* cancel, that is while its stream is open; when no sendMessage is in
\* flight the set is empty.
C22_OwnedWhileInFlight ==
  /\ \A e \in Exchanges :
       e \in localRequestIds <=>
         (pc[e] = "streaming" /\ CanCloseOrEnqueue(controller[e]))
  /\ (\A e \in Exchanges : pc[e] # "streaming") => localRequestIds = {}

C22_Witness ==
  \E e, d \in Exchanges :
    /\ e \in localRequestIds
    /\ pc[e] = "streaming"
    /\ pc[d] = "ready"
    /\ signal[d] = "armed"
    /\ d \notin localRequestIds

\* C23: when a finish chunk, a frame with done set or an error frame arrives
\* for a remote-initiated exchange, remoteStreams holds no entry for its
\* identifier afterwards, whatever the body of the frame.
C23_RemoteEntryRemoved ==
  [][\A id \in RemoteIds :
       \/ remoteStreams'[id] = <<>>
       \/ \A f \in ResponseFramesOf(id) :
            (f.done \/ f.error \/ f.body.type = "finish") => ~Receive(f)]_vars

\* C24: setMessages, with a list or with an updater function, sends one
\* chat-messages frame whose messages are the list the store holds after
\* the call.
C24_SetMessagesSendsList ==
  [][(SetMessagesFn \/ \E list \in Snapshots : SetMessages(list)) =>
       /\ lastSent'.type = "chat-messages"
       /\ sent'[<<"chat-messages", 0>>] = sent[<<"chat-messages", 0>>] + 1
       /\ lastSent'.messages = messages']_vars

\* C25: for every sequence of start, text-delta and finish events of one
\* exchange, the stream loop of sendMessage and handleServerMessage, started
\* on the same list, end with the same list.
C25_PathsAgree == paths.local.messages = paths.remote.messages

\* C26: while a sendMessage call has not completed, status is "streaming",
\* also when several calls overlap; status is "ready" only when no call is
\* in flight.
C26_StreamingWhileInFlight ==
  /\ (\E e \in Exchanges : pc[e] = "streaming") => status = "streaming"
  /\ status = "ready" => \A e \in Exchanges : pc[e] # "streaming"

\* C27: a history response that arrives after the list was changed neither
\* replaces the list nor removes messages from it.
C27_LateHistoryKeepsList ==
  [][\A history \in Snapshots :
       (messages # <<>> /\ HistoryResolve(history)) =>
         \A i \in 1..Len(messages) : FindIndex(messages', messages[i].id) > 0]_vars

====
